---- MODULE Spec2Model ----
(***************************************************************************)
(* Portfolio API (src/main.py): a FastAPI application whose handlers are   *)
(* all `async def` coroutines that call the blocking mysql.connector and   *)
(* SendGrid clients directly.  The model follows each handler statement by *)
(* statement: one action per external call (connect, cursor, execute,      *)
(* commit, send, close), with the outcomes the call can have.              *)
(*                                                                         *)
(* Text values (names, e-mail addresses, messages, technology tags) are    *)
(* sequences of one-character strings so that validation, joining and      *)
(* splitting are computed and not assumed.                                 *)
(***************************************************************************)
EXTENDS Integers, Sequences, FiniteSets, TLC

\* ------------------------------------------------------------------ bounds
NumReqs == 2
MaxSkills == 3
MaxOrder == 2
MaxProjects == 2
MaxTechRows == 2

Reqs == 1..NumReqs
NoReq == 0

\* -------------------------------------------------------------- text values
None == <<"None">>

Ann == <<"a", "n", "n">>
Bob == <<"b", "o", "b">>

GoodEmail == <<"a", "@", "b", ".", "c">>
NoAt == <<"a", "b", ".", "c">>
NoPeriod == <<"a", "@", "b", "c">>
NoLocal == <<"@", "b", ".", "c">>

Hi == <<"h", "i">>
KeyLike == <<"S", "G", ".", "k", ".", "s">>

KeyChars == {"a", "b", "c", "h", "i", "k", "n", "o", "s", "S", "G", "-", "_"}

Positions(s, c) == {i \in 1..Len(s) : s[i] = c}

\* pydantic's EmailStr (email-validator): one "@", a non-empty local part, and
\* a domain of non-empty labels separated by at least one period.
IsEmailStr(s) ==
    /\ Cardinality(Positions(s, "@")) = 1
    /\ LET at == CHOOSE i \in Positions(s, "@") : TRUE
           dots == {i \in Positions(s, ".") : i > at}
       IN  /\ at > 1
           /\ dots # {}
           /\ \A i \in dots : i > at + 1 /\ i < Len(s) /\ (i + 1) \notin dots

\* email: str, every address accepted.
ValidContactAnyEmail(c) == TRUE

\* class ContactMessage(BaseModel): name: str, email: EmailStr, message: str
ValidContact(c) == IsEmailStr(c.email)

\* ----------------------------------------------------------- configuration
CredValues == {None, <<>>, <<"k">>}

\* Python truthiness of an Optional[str]: None and "" are falsy.
Truthy(v) == v # None /\ v # <<>>

\* any([...]) in place of all([...]).
AnyTruthy(key, sender, receiver) == Truthy(key) \/ Truthy(sender) \/ Truthy(receiver)

\* all([SENDGRID_API_KEY, SENDER_EMAIL, RECEIVER_EMAIL])
AllTruthy(key, sender, receiver) == Truthy(key) /\ Truthy(sender) /\ Truthy(receiver)

\* ---------------------------------------------------------------- send_email
\* The f-string template with the three fields embedded verbatim; "<" stands
\* for the fixed markup between the fields.
HtmlContent(c) == <<"<">> \o c.name \o <<"<">> \o c.email \o <<"<">> \o c.message
                  \o <<"<">> \o c.email \o <<"<">>

\* sendgrid's content validator refuses text in which an API key can be found:
\* "SG." followed by key characters and a second period.
HasApiKey(s) ==
    \E i \in 1..Len(s) : \E j \in 1..Len(s) :
        /\ i + 3 <= j
        /\ s[i] = "S" /\ s[i + 1] = "G" /\ s[i + 2] = "." /\ s[j] = "."
        /\ \A k \in (i + 3)..(j - 1) : s[k] \in KeyChars

\* Mail(...) and message.reply_to, the statements before the try block.
MailBuildRaises(c) == HasApiKey(HtmlContent(c))

\* -------------------------------------------------------------------- state
VARIABLES
    SENDGRID_API_KEY, SENDER_EMAIL, RECEIVER_EMAIL,
    profile, skills, projects, project_technologies, experience, contact_messages,
    loop, req, pc, conn, txn, status, body, notif, committed

vars == <<SENDGRID_API_KEY, SENDER_EMAIL, RECEIVER_EMAIL,
          profile, skills, projects, project_technologies, experience,
          contact_messages,
          loop, req, pc, conn, txn, status, body, notif, committed>>

config == <<SENDGRID_API_KEY, SENDER_EMAIL, RECEIVER_EMAIL>>
content == <<profile, skills, projects, project_technologies, experience>>

NoRequest == [ep |-> "none"]
NoBody == [kind |-> "none"]

\* The submissions the clients make: three that pass validation, one for each
\* way an address fails it.
Contacts ==
    {[name |-> Ann, email |-> GoodEmail, message |-> Hi],
     [name |-> Bob, email |-> GoodEmail, message |-> Hi],
     [name |-> Bob, email |-> GoodEmail, message |-> KeyLike],
     [name |-> Ann, email |-> NoAt, message |-> Hi],
     [name |-> Ann, email |-> NoPeriod, message |-> KeyLike],
     [name |-> Bob, email |-> NoLocal, message |-> Hi]}

ContactRequests == {[ep |-> "contact", data |-> c] : c \in Contacts}

WriteMix == ContactRequests \cup {[ep |-> "root"], [ep |-> "stats"]}

ReadMix == {[ep |-> "health"], [ep |-> "profile"], [ep |-> "experience"]}

ProfileRow == [id |-> 1, name |-> Ann]

ExperienceRows == <<[id |-> 2, is_current |-> TRUE], [id |-> 1, is_current |-> FALSE]>>

InitRequests ==
    /\ loop = NoReq
    /\ req = [r \in Reqs |-> NoRequest]
    /\ pc = [r \in Reqs |-> "idle"]
    /\ conn = [r \in Reqs |-> "none"]
    /\ txn = [r \in Reqs |-> <<>>]
    /\ status = [r \in Reqs |-> 0]
    /\ body = [r \in Reqs |-> NoBody]
    /\ notif = [r \in Reqs |-> "none"]
    /\ committed = [r \in Reqs |-> FALSE]

\* The deployment of the contact form: both addresses are set, the API key
\* is set, empty or absent.
Init ==
    /\ SENDGRID_API_KEY \in CredValues
    /\ SENDER_EMAIL = GoodEmail
    /\ RECEIVER_EMAIL = GoodEmail
    /\ profile = <<ProfileRow>>
    /\ skills = <<>>
    /\ projects = <<>>
    /\ project_technologies = <<>>
    /\ experience = ExperienceRows
    /\ contact_messages = <<>>
    /\ InitRequests

\* ---------------------------------------------------------- request plumbing
\* A response leaves the handler: the coroutine ends and the event loop is free.
Respond(r, code, payload) ==
    /\ status' = [status EXCEPT ![r] = code]
    /\ body' = [body EXCEPT ![r] = payload]
    /\ pc' = [pc EXCEPT ![r] = "done"]
    /\ loop' = NoReq

\* The handler moves on to its next statement and keeps the event loop.
Goto(r, label) ==
    /\ pc' = [pc EXCEPT ![r] = label]
    /\ loop' = loop

\* The result (or the exception) is held until the finally block has run.
Hold(r, code, payload) ==
    /\ status' = [status EXCEPT ![r] = code]
    /\ body' = [body EXCEPT ![r] = payload]
    /\ Goto(r, "finally")

ErrorBody(text) == [kind |-> "error", detail |-> text]

\* uvicorn.run(app): one process, one event loop.  A handler is a coroutine
\* without a single await, so it keeps the loop from its first statement to
\* its return: a request starts only when no handler is running.
CanStart == loop = NoReq

\* A request reaches the server.
Arrive(r, q) ==
    /\ pc[r] = "idle"
    /\ req' = [req EXCEPT ![r] = q]
    /\ pc' = [pc EXCEPT ![r] = "pending"]
    /\ UNCHANGED <<config, content, contact_messages, loop, conn, txn, status, body,
                   notif, committed>>

\* The body of POST /api/contact fails validation: FastAPI answers 422 and
\* the handler is never called.
Reject(r) ==
    /\ pc[r] = "pending" /\ CanStart
    /\ req[r].ep = "contact" /\ ~ValidContact(req[r].data)
    /\ Respond(r, 422, ErrorBody("validation"))
    /\ UNCHANGED <<config, content, contact_messages, req, conn, txn, notif, committed>>

\* GET /
root(r) ==
    /\ pc[r] = "pending" /\ CanStart
    /\ req[r].ep = "root"
    /\ Respond(r, 200, [kind |-> "root", status |-> "ok"])
    /\ UNCHANGED <<config, content, contact_messages, req, conn, txn, notif, committed>>

\* Every other handler starts with get_db_connection().
Dispatch(r) ==
    /\ pc[r] = "pending" /\ CanStart
    /\ req[r].ep # "root"
    /\ req[r].ep = "contact" => ValidContact(req[r].data)
    /\ pc' = [pc EXCEPT ![r] = "connect"]
    /\ loop' = r
    /\ UNCHANGED <<config, content, contact_messages, req, conn, txn, status, body,
                   notif, committed>>

\* get_db_connection(): the connection, or HTTPException(500).
get_db_connection(r) ==
    /\ pc[r] = "connect" /\ req[r].ep # "health"
    /\ \/ /\ conn' = [conn EXCEPT ![r] = "open"]
          /\ Goto(r, "cursor")
          /\ UNCHANGED <<status, body>>
       \/ /\ Respond(r, 500, ErrorBody("Database connection failed"))
          /\ UNCHANGED conn
    /\ UNCHANGED <<config, content, contact_messages, req, txn, notif, committed>>

\* connection.cursor(...), the statement between the connect and the try block.
OpenCursor(r) ==
    /\ pc[r] = "cursor"
    /\ \/ /\ Goto(r, "execute")
          /\ UNCHANGED <<status, body>>
       \/ Respond(r, 500, ErrorBody("Internal Server Error"))
    /\ UNCHANGED <<config, content, contact_messages, req, conn, txn, notif, committed>>

\* cursor.execute(...) of a read handler raises.
QueryFails(r) ==
    /\ pc[r] = "execute" /\ req[r].ep # "contact"
    /\ Hold(r, 500, ErrorBody("Internal Server Error"))
    /\ UNCHANGED <<config, content, contact_messages, req, conn, txn, notif, committed>>

\* finally: cursor.close(); connection.close().  When cursor.close() raises,
\* connection.close() is not reached; an exception of either call replaces
\* the result of the handler.
Finally(r) ==
    /\ pc[r] = "finally"
    /\ \/ /\ conn' = [conn EXCEPT ![r] = "closed"]
          /\ Respond(r, status[r], body[r])
       \/ /\ Respond(r, 500, ErrorBody("Internal Server Error"))
          /\ UNCHANGED conn
    /\ UNCHANGED <<config, content, contact_messages, req, txn, notif, committed>>

\* ------------------------------------------------------------ read handlers
\* GET /api/profile: the first row, or 404 when there is none.
get_profile(r) ==
    /\ pc[r] = "execute" /\ req[r].ep = "profile"
    /\ IF profile = <<>>
       THEN Hold(r, 404, ErrorBody("Profile not found"))
       ELSE Hold(r, 200, [kind |-> "profile", row |-> Head(profile)])
    /\ UNCHANGED <<config, content, contact_messages, req, conn, txn, notif, committed>>

\* GET /api/experience: the rows in the order of the query (the table is
\* kept in that order).
get_experience(r) ==
    /\ pc[r] = "execute" /\ req[r].ep = "experience"
    /\ Hold(r, 200, [kind |-> "experience", rows |-> experience])
    /\ UNCHANGED <<config, content, contact_messages, req, conn, txn, notif, committed>>

\* GET /api/stats: the three COUNT(*) queries.
get_stats(r) ==
    /\ pc[r] = "execute" /\ req[r].ep = "stats"
    /\ Hold(r, 200, [kind |-> "stats", projects |-> Len(projects), skills |-> Len(skills),
                     messages |-> Len(contact_messages)])
    /\ UNCHANGED <<config, content, contact_messages, req, conn, txn, notif, committed>>

\* ------------------------------------------------------- POST /api/contact
\* The parameters bound in the wrong order.
InsertRowSwapped(c) == [name |-> c.message, email |-> c.email, message |-> c.name]

\* INSERT INTO contact_messages (name, email, message) VALUES (%s, %s, %s)
InsertRow(c) == [name |-> c.name, email |-> c.email, message |-> c.message]

\* connection.commit(): the transaction's rows become part of the table.
Commit(table, pending) == table \o pending

Ack == [kind |-> "contact", success |-> TRUE,
        message |-> "Your message has been sent successfully! I'll get back to you soon."]

\* cursor.execute(INSERT ...): the row joins the open transaction, or the
\* statement raises.
contact_execute(r) ==
    /\ pc[r] = "execute" /\ req[r].ep = "contact"
    /\ \/ /\ txn' = [txn EXCEPT ![r] = Append(txn[r], InsertRow(req[r].data))]
          /\ Goto(r, "commit")
       \/ /\ Goto(r, "except")
          /\ UNCHANGED txn
    /\ UNCHANGED <<config, content, contact_messages, req, conn, status, body, notif,
                   committed>>

\* connection.commit()
contact_commit(r) ==
    /\ pc[r] = "commit"
    /\ \/ /\ contact_messages' = Commit(contact_messages, txn[r])
          /\ txn' = [txn EXCEPT ![r] = <<>>]
          /\ committed' = [committed EXCEPT ![r] = TRUE]
          /\ Goto(r, "notify")
       \/ /\ Goto(r, "except")
          /\ UNCHANGED <<contact_messages, txn, committed>>
    /\ UNCHANGED <<config, content, req, conn, status, body, notif>>

\* email_sent = False; if all([...]): ... else straight to the return.
contact_notify(r) ==
    /\ pc[r] = "notify"
    /\ IF AllTruthy(SENDGRID_API_KEY, SENDER_EMAIL, RECEIVER_EMAIL)
       THEN /\ Goto(r, "send_email")
            /\ UNCHANGED <<status, body, notif>>
       ELSE /\ notif' = [notif EXCEPT ![r] = "not_configured"]
            /\ Hold(r, 200, Ack)
    /\ UNCHANGED <<config, content, contact_messages, req, conn, txn, committed>>

\* send_email up to its try block: the template, Mail(...), reply_to.  An
\* exception here is not caught in send_email and reaches contact's handler.
send_email_build(r) ==
    /\ pc[r] = "send_email"
    /\ IF MailBuildRaises(req[r].data)
       THEN /\ notif' = [notif EXCEPT ![r] = "raised"]
            /\ Goto(r, "except")
       ELSE /\ Goto(r, "sg_send")
            /\ UNCHANGED notif
    /\ UNCHANGED <<config, content, contact_messages, req, conn, txn, status, body,
                   committed>>

\* try: SendGridAPIClient(...).send(message); return True
\* except Exception: return False.  Either way contact returns its response.
send_email_try(r) ==
    /\ pc[r] = "sg_send"
    /\ \E sent \in BOOLEAN :
          notif' = [notif EXCEPT ![r] = IF sent THEN "sent" ELSE "failed"]
    /\ Hold(r, 200, Ack)
    /\ UNCHANGED <<config, content, contact_messages, req, conn, txn, committed>>

\* except Exception as e: connection.rollback(); raise HTTPException(500, ...)
contact_except(r) ==
    /\ pc[r] = "except"
    /\ txn' = [txn EXCEPT ![r] = <<>>]
    /\ Hold(r, 500, ErrorBody("Failed to save message"))
    /\ UNCHANGED <<config, content, contact_messages, req, conn, notif, committed>>

\* --------------------------------------------------------- GET /api/health
HealthBody(db_connected) ==
    [kind |-> "health", status |-> "healthy", database_connected |-> db_connected,
     email_configured |-> AllTruthy(SENDGRID_API_KEY, SENDER_EMAIL, RECEIVER_EMAIL),
     version |-> "2.0.0"]

\* try: connection = get_db_connection() ... except: pass
health_check_connect(r) ==
    /\ pc[r] = "connect" /\ req[r].ep = "health"
    /\ \/ /\ conn' = [conn EXCEPT ![r] = "open"]
          /\ Goto(r, "health_close")
          /\ UNCHANGED <<status, body>>
       \/ /\ Respond(r, 200, HealthBody(FALSE))
          /\ UNCHANGED conn
    /\ UNCHANGED <<config, content, contact_messages, req, txn, notif, committed>>

\* connection.close(); db_connected = True; return {...}.  A close() that
\* raises is caught like a failed connect and leaves db_connected False.
health_check_close(r) ==
    /\ pc[r] = "health_close"
    /\ \/ /\ conn' = [conn EXCEPT ![r] = "closed"]
          /\ Respond(r, 200, HealthBody(TRUE))
       \/ /\ Respond(r, 200, HealthBody(FALSE))
          /\ UNCHANGED conn
    /\ UNCHANGED <<config, content, contact_messages, req, txn, notif, committed>>

\* --------------------------------------------------------- GET /api/skills
SeqsUpTo(S, n) == UNION {[1..k -> S] : k \in 0..n}

\* The categories in the order of the column's collation.
CategoryOrder == <<"backend", "frontend">>
CategoryRank(c) == CHOOSE i \in 1..Len(CategoryOrder) : CategoryOrder[i] = c

SkillRows ==
    [category : {"backend", "frontend"}, name : {<<"g", "o">>, <<"j", "s">>},
     display_order : 1..MaxOrder]

\* ORDER BY category, display_order
SkillBefore(a, b) ==
    \/ CategoryRank(a.category) < CategoryRank(b.category)
    \/ a.category = b.category /\ a.display_order < b.display_order

RECURSIVE InsertSorted(_, _)
InsertSorted(sorted, row) ==
    IF sorted = <<>> \/ ~SkillBefore(row, sorted[Len(sorted)])
    THEN Append(sorted, row)
    ELSE Append(InsertSorted(SubSeq(sorted, 1, Len(sorted) - 1), row), sorted[Len(sorted)])

RECURSIVE OrderSkills(_)
OrderSkills(rows) ==
    IF rows = <<>> THEN <<>>
    ELSE InsertSorted(OrderSkills(SubSeq(rows, 1, Len(rows) - 1)), rows[Len(rows)])

\* A dict in insertion order: a sequence of [key, value] entries, keys distinct.
DictHas(d, k) == \E i \in 1..Len(d) : d[i].key = k
DictSet(d, k, v) ==
    IF DictHas(d, k)
    THEN [i \in 1..Len(d) |-> IF d[i].key = k THEN [key |-> k, value |-> v] ELSE d[i]]
    ELSE Append(d, [key |-> k, value |-> v])
DictGet(d, k) == d[CHOOSE i \in 1..Len(d) : d[i].key = k].value

\* grouped[category] = [item]: the list is started anew for every skill.
GroupStepReset(grouped, skill) == DictSet(grouped, skill.category, <<[name |-> skill.name]>>)

\* if category not in grouped: grouped[category] = []
\* grouped[category].append({...})
GroupStep(grouped, skill) ==
    LET started == IF DictHas(grouped, skill.category) THEN grouped
                   ELSE DictSet(grouped, skill.category, <<>>)
    IN  DictSet(started, skill.category,
                Append(DictGet(started, skill.category), [name |-> skill.name]))

\* for skill in skills: ...
RECURSIVE GroupSkills(_)
GroupSkills(rows) ==
    IF rows = <<>> THEN <<>>
    ELSE GroupStep(GroupSkills(SubSeq(rows, 1, Len(rows) - 1)), rows[Len(rows)])

\* [{'category': category, 'items': [s['name'] for s in items]} for ... in grouped.items()]
FormatSkills(grouped) ==
    [i \in 1..Len(grouped) |->
        [category |-> grouped[i].key,
         items |-> [j \in 1..Len(grouped[i].value) |-> grouped[i].value[j].name]]]

get_skills(r) ==
    /\ pc[r] = "execute" /\ req[r].ep = "skills"
    /\ Hold(r, 200, [kind |-> "skills",
                     result |-> FormatSkills(GroupSkills(OrderSkills(skills)))])
    /\ UNCHANGED <<config, content, contact_messages, req, conn, txn, notif, committed>>

\* ------------------------------------------------------- GET /api/projects
Web == <<"w", "e", "b">>
Api == <<"a", "p", "i">>

\* An Optional[bool] query parameter: {} when absent, {b} when given.
FeaturedValues == {{}, {TRUE}, {FALSE}}
CategoryValues == {None, <<>>, Web, Api}

\* The projects table in the order of ORDER BY display_order, created_at DESC;
\* the primary key is the position.
ProjectTables ==
    {[i \in 1..Len(t) |-> [id |-> i, category |-> t[i].category, featured |-> t[i].featured]] :
        t \in SeqsUpTo([category : {None, Web, Api}, featured : BOOLEAN], MaxProjects)}

TechStrings == {<<"a">>, <<"b">>, <<"a", ",", "b">>}

\* if featured: in place of if featured is not None:
ConditionsFeaturedTruthy(category, featured) ==
    (IF Truthy(category) THEN <<[col |-> "category", val |-> category]>> ELSE <<>>)
    \o (IF featured = {TRUE} THEN <<[col |-> "featured", val |-> TRUE]>> ELSE <<>>)

\* if category: conditions.append("p.category = %s"); params.append(category)
\* if featured is not None: conditions.append("p.featured = %s"); params.append(featured)
Conditions(category, featured) ==
    (IF Truthy(category) THEN <<[col |-> "category", val |-> category]>> ELSE <<>>)
    \o (IF featured # {}
        THEN <<[col |-> "featured", val |-> CHOOSE b \in featured : TRUE]>>
        ELSE <<>>)

\* One condition of the WHERE clause; a NULL category equals nothing.
Holds(p, cond) ==
    IF cond.col = "category"
    THEN p.category # None /\ p.category = cond.val
    ELSE p.featured = cond.val

\* " WHERE " + " AND ".join(conditions), or no WHERE clause at all
Where(p, conds) == \A i \in 1..Len(conds) : Holds(p, conds[i])

\* LEFT JOIN project_technologies pt ON p.id = pt.project_id
JoinedTags(id) ==
    LET rows == SelectSeq(project_technologies, LAMBDA pt : pt.project_id = id)
    IN  [k \in 1..Len(rows) |-> rows[k].technology]

\* GROUP_CONCAT(pt.technology): NULL for no rows, else the values with ","
\* between them.
RECURSIVE JoinComma(_)
JoinComma(tags) ==
    IF Len(tags) = 1 THEN tags[1]
    ELSE JoinComma(SubSeq(tags, 1, Len(tags) - 1)) \o <<",">> \o tags[Len(tags)]

GroupConcat(tags) == IF tags = <<>> THEN None ELSE JoinComma(tags)

\* str.split(','): the pieces between the commas, one more than the commas.
RECURSIVE SplitComma(_)
SplitComma(text) ==
    IF \A i \in 1..Len(text) : text[i] # ","
    THEN <<text>>
    ELSE LET i == CHOOSE k \in 1..Len(text) :
                      text[k] = "," /\ \A m \in 1..(k - 1) : text[m] # ","
         IN  <<SubSeq(text, 1, i - 1)>> \o SplitComma(SubSeq(text, i + 1, Len(text)))

\* if project['technologies']: ....split(',') else: []
FormatTechnologies(concat) == IF Truthy(concat) THEN SplitComma(concat) ELSE <<>>

SelectedRow(p) ==
    [id |-> p.id, category |-> p.category, featured |-> p.featured,
     technologies |-> FormatTechnologies(GroupConcat(JoinedTags(p.id)))]

ProjectRequests ==
    {[ep |-> "projects", category |-> c, featured |-> f] :
        c \in CategoryValues, f \in FeaturedValues}
    \cup {[ep |-> "project", project_id |-> i] : i \in 1..(MaxProjects + 1)}

get_projects(r) ==
    /\ pc[r] = "execute" /\ req[r].ep = "projects"
    /\ LET conds == Conditions(req[r].category, req[r].featured)
           found == SelectSeq(projects, LAMBDA p : Where(p, conds))
       IN  Hold(r, 200, [kind |-> "projects",
                         rows |-> [k \in 1..Len(found) |-> SelectedRow(found[k])]])
    /\ UNCHANGED <<config, content, contact_messages, req, conn, txn, notif, committed>>

\* GET /api/projects/{project_id}
get_project(r) ==
    /\ pc[r] = "execute" /\ req[r].ep = "project"
    /\ LET found == SelectSeq(projects, LAMBDA p : p.id = req[r].project_id)
       IN  IF found = <<>>
           THEN Hold(r, 404, ErrorBody("Project not found"))
           ELSE Hold(r, 200, [kind |-> "project", row |-> SelectedRow(found[1])])
    /\ UNCHANGED <<config, content, contact_messages, req, conn, txn, notif, committed>>

\* ------------------------------------------------------------ specification
\* The statements every handler with a connection shares.
Lifecycle(r) ==
    \/ Dispatch(r)
    \/ get_db_connection(r)
    \/ OpenCursor(r)
    \/ QueryFails(r)
    \/ Finally(r)

\* The contact form in use: submissions, the liveness probe and the counters.
Next ==
    \E r \in Reqs :
        \/ \E q \in WriteMix : Arrive(r, q)
        \/ Reject(r)
        \/ root(r)
        \/ Lifecycle(r)
        \/ get_stats(r)
        \/ contact_execute(r)
        \/ contact_commit(r)
        \/ contact_notify(r)
        \/ send_email_build(r)
        \/ send_email_try(r)
        \/ contact_except(r)

Spec == Init /\ [][Next]_vars

\* The read-only pages and the health probe, under every configuration of
\* the three credentials and with and without a profile row.
InitRead ==
    /\ SENDGRID_API_KEY \in CredValues
    /\ SENDER_EMAIL \in CredValues
    /\ RECEIVER_EMAIL \in CredValues
    /\ profile \in {<<>>, <<ProfileRow>>}
    /\ skills = <<>>
    /\ projects = <<>>
    /\ project_technologies = <<>>
    /\ experience = ExperienceRows
    /\ contact_messages = <<>>
    /\ InitRequests

NextRead ==
    \E r \in Reqs :
        \/ \E q \in ReadMix : Arrive(r, q)
        \/ Lifecycle(r)
        \/ get_profile(r)
        \/ get_experience(r)
        \/ health_check_connect(r)
        \/ health_check_close(r)

SpecRead == InitRead /\ [][NextRead]_vars

\* The skills page over every skills table of up to MaxSkills rows.  The
\* requests of this and of the projects pages are served one at a time.
Solo == {r \in Reqs : \A o \in Reqs : r <= o}

InitSkills ==
    /\ SENDGRID_API_KEY = None
    /\ SENDER_EMAIL = None
    /\ RECEIVER_EMAIL = None
    /\ profile = <<ProfileRow>>
    /\ skills \in SeqsUpTo(SkillRows, MaxSkills)
    /\ projects = <<>>
    /\ project_technologies = <<>>
    /\ experience = ExperienceRows
    /\ contact_messages = <<>>
    /\ InitRequests

NextSkills ==
    \E r \in Solo :
        \/ Arrive(r, [ep |-> "skills"])
        \/ Lifecycle(r)
        \/ get_skills(r)

SpecSkills == InitSkills /\ [][NextSkills]_vars

\* The projects pages: every projects table of up to MaxProjects rows with
\* one tagged project, and two fixed projects with every technology table of
\* up to MaxTechRows rows.
TwoProjects ==
    <<[id |-> 1, category |-> Web, featured |-> TRUE],
      [id |-> 2, category |-> Api, featured |-> FALSE]>>

InitProjects ==
    /\ SENDGRID_API_KEY = None
    /\ SENDER_EMAIL = None
    /\ RECEIVER_EMAIL = None
    /\ profile = <<ProfileRow>>
    /\ skills = <<>>
    /\ \/ /\ projects \in ProjectTables
          /\ project_technologies = <<[project_id |-> 1, technology |-> <<"a">>]>>
       \/ /\ projects = TwoProjects
          /\ project_technologies \in
                 SeqsUpTo([project_id : {1, 2}, technology : TechStrings], MaxTechRows)
    /\ experience = ExperienceRows
    /\ contact_messages = <<>>
    /\ InitRequests

NextProjects ==
    \E r \in Solo :
        \/ \E q \in ProjectRequests : Arrive(r, q)
        \/ Lifecycle(r)
        \/ get_projects(r)
        \/ get_project(r)

SpecProjects == InitProjects /\ [][NextProjects]_vars

\* ------------------------------------------------------------------- claims
IsContact(r) == req[r].ep = "contact"

Submitted(r) ==
    [name |-> req[r].data.name, email |-> req[r].data.email,
     message |-> req[r].data.message]

Stored(row) == \E i \in 1..Len(contact_messages) : contact_messages[i] = row

\* C1 as stated: after every finished POST /api/contact with a valid body a
\* contact_messages row holds exactly the submitted name, email and message.
C1_RowAfterEveryValidSubmission ==
    \A r \in Reqs :
        (IsContact(r) /\ IsEmailStr(req[r].data.email) /\ pc[r] = "done")
            => Stored(Submitted(r))

\* C1 amended: after every finished POST /api/contact with a valid body whose
\* insert was committed, a contact_messages row holds exactly the submitted
\* name, email and message, whatever the notification step did (skipped for
\* missing credentials, sent, failed, or raised).
C1_RowAfterCommittedSubmission ==
    \A r \in Reqs :
        (IsContact(r) /\ IsEmailStr(req[r].data.email) /\ pc[r] = "done" /\ committed[r])
            => Stored(Submitted(r))

\* C1 witness: a committed submission has finished after its send failed, and
\* its row is in the table.
C1_Witness ==
    \E r \in Reqs :
        /\ IsContact(r) /\ pc[r] = "done" /\ committed[r]
        /\ notif[r] = "failed"
        /\ Stored(Submitted(r))

C3_InvalidEmailRejected ==
    \A r \in Reqs :
        (IsContact(r) /\ ~IsEmailStr(req[r].data.email))
            => /\ pc[r] \in {"pending", "done"}
               /\ pc[r] = "done" => status[r] = 422
               /\ conn[r] = "none"
               /\ txn[r] = <<>>
               /\ notif[r] = "none"
               /\ ~committed[r]
               /\ ~Stored(Submitted(r))

\* C3 witness: an invalid submission has been answered while another
\* submission's row is in the table.
C3_Witness ==
    \E r \in Reqs :
        /\ IsContact(r) /\ ~IsEmailStr(req[r].data.email)
        /\ pc[r] = "done" /\ status[r] = 422
        /\ Len(contact_messages) > 0

\* C4: no request has finished while a connection it acquired is still open.
C4_ConnectionClosedOnEveryExit ==
    \A r \in Reqs : pc[r] = "done" => conn[r] # "open"

C6_HealthReport ==
    \A r \in Reqs :
        (req[r].ep = "health" /\ pc[r] = "done")
            => /\ status[r] = 200
               /\ body[r].kind = "health"
               /\ body[r].database_connected <=> conn[r] = "closed"
               /\ body[r].email_configured <=>
                      \A v \in {SENDGRID_API_KEY, SENDER_EMAIL, RECEIVER_EMAIL} :
                          v # None /\ Len(v) > 0

\* C6 witness: the store was unreachable and exactly one credential, the
\* receiver address, is missing.
C6_Witness ==
    \E r \in Reqs :
        /\ req[r].ep = "health" /\ pc[r] = "done"
        /\ conn[r] = "none" /\ ~body[r].database_connected
        /\ SENDGRID_API_KEY = <<"k">> /\ SENDER_EMAIL = <<"k">> /\ RECEIVER_EMAIL = None
        /\ ~body[r].email_configured

\* The handler is inside a blocking database or e-mail call.
Blocked(r) == pc[r] \in {"connect", "cursor", "execute", "commit", "sg_send", "finally"}

\* C10: while one request waits on its database or e-mail call, any other
\* request that has arrived can start.
C10_NoRequestBlocksAnother ==
    \A r1 \in Reqs : \A r2 \in Reqs :
        (r1 # r2 /\ Blocked(r1) /\ pc[r2] = "pending") => CanStart

\* The rows of the skills query, and the names of those in one category.
QueryRows == OrderSkills(skills)
RowsOf(cat) == SelectSeq(QueryRows, LAMBDA row : row.category = cat)
NamesOf(cat) == [k \in 1..Len(RowsOf(cat)) |-> RowsOf(cat)[k].name]
FirstSeen(cat) == CHOOSE k \in 1..Len(QueryRows) :
                      /\ QueryRows[k].category = cat
                      /\ \A m \in 1..(k - 1) : QueryRows[m].category # cat

Partition(groups) ==
    /\ \A i \in 1..Len(groups) : \A j \in 1..Len(groups) :
           i # j => groups[i].category # groups[j].category
    /\ \A k \in 1..Len(QueryRows) :
           \E i \in 1..Len(groups) : groups[i].category = QueryRows[k].category
    /\ \A i \in 1..Len(groups) :
           /\ groups[i].items # <<>>
           /\ groups[i].items = NamesOf(groups[i].category)
    /\ \A i \in 1..Len(groups) : \A j \in 1..Len(groups) :
           i < j => FirstSeen(groups[i].category) < FirstSeen(groups[j].category)

\* C9: the answer of GET /api/skills partitions the rows of the query by
\* category: no category is in two groups, every row's name is in the group
\* of its category and in no other, as often as the rows give it and in the
\* order of the query, and the groups are in first-seen order.
C9_SkillsPartition ==
    \A r \in Reqs :
        (req[r].ep = "skills" /\ pc[r] = "done" /\ status[r] = 200)
            => Partition(body[r].result)

\* C9 witness: a table that is not stored in query order, with two groups of
\* which one has two names, has been served.
C9_Witness ==
    \E r \in Reqs :
        /\ req[r].ep = "skills" /\ pc[r] = "done" /\ status[r] = 200
        /\ skills # QueryRows
        /\ Len(body[r].result) = 2
        /\ \E i \in 1..2 : Len(body[r].result[i].items) = 2

ListDone(r) == req[r].ep = "projects" /\ pc[r] = "done" /\ status[r] = 200

Ids(rows) == {rows[k].id : k \in 1..Len(rows)}

\* C7 as stated: the filters are applied for every supplied value, so every
\* project returned for a supplied category X, the empty string included, has
\* category X, and every one returned for featured = b has the flag b.
C7_FiltersForEverySuppliedValue ==
    \A r \in Reqs :
        ListDone(r) =>
            \A k \in 1..Len(body[r].rows) :
                /\ req[r].category # None => body[r].rows[k].category = req[r].category
                /\ req[r].featured # {} => body[r].rows[k].featured \in req[r].featured

\* C7 amended: the projects returned are exactly those that have category X
\* when a non-empty X is supplied and the flag b when featured = b is
\* supplied: each filter alone, both as the intersection, all projects when
\* neither is supplied.  An empty category value filters nothing.
C7_FiltersConjunctive ==
    \A r \in Reqs :
        ListDone(r) =>
            /\ Ids(body[r].rows) =
                   {p.id : p \in
                       {q \in {projects[k] : k \in 1..Len(projects)} :
                           /\ (req[r].category # None /\ req[r].category # <<>>)
                                  => q.category = req[r].category
                           /\ req[r].featured # {} => q.featured \in req[r].featured}}
            /\ Len(body[r].rows) = Cardinality(Ids(body[r].rows))

\* C7 witness: both filters were supplied; of two projects the one returned
\* meets both, and a project that meets the category filter alone is left out.
C7_Witness ==
    \E r \in Reqs :
        /\ ListDone(r)
        /\ req[r].category = Web /\ req[r].featured = {FALSE}
        /\ Len(projects) = 2 /\ Len(body[r].rows) = 1
        /\ \E k \in 1..2 : projects[k].category = Web /\ projects[k].featured

\* C8: the technologies of every project returned by either projects page
\* are the joined technology strings of that project, as many and the same:
\* the empty list for a project without any.
C8_TechnologiesRoundTrip ==
    \A r \in Reqs :
        /\ ListDone(r) =>
               \A k \in 1..Len(body[r].rows) :
                   body[r].rows[k].technologies = JoinedTags(body[r].rows[k].id)
        /\ (req[r].ep = "project" /\ pc[r] = "done" /\ status[r] = 200) =>
               body[r].row.technologies = JoinedTags(body[r].row.id)

====
